---- MODULE Spec2Model ----
(***************************************************************************)
(* cow_converter: converts an OTA payload plus extracted target images     *)
(* into one COW file per partition (aosp/cow_converter.cc).                *)
(*                                                                         *)
(* The state machine follows main() and ProcessPartition() statement by    *)
(* statement.  System calls and the external collaborators (payload        *)
(* metadata parser, COW writer, file system) answer nondeterministically.  *)
(* CowDryRun lives in payload_generator/cow_size_estimator.cc, which is    *)
(* not part of the sources at hand; its Writer call sequence is taken      *)
(* from the design document (sections 4.3 and 8).                          *)
(***************************************************************************)
EXTENDS Integers, Sequences, FiniteSets, TLC

VARIABLES
  argc,                        \* argc left after gflags removed the flags
  FLAGS_partitions,            \* --partitions, a string (sequence of characters)
  FLAGS_cow_version,           \* --cow_version (int32)
  FLAGS_vabc_compression_param,\* --vabc_compression_param
  payload_manifest,            \* the DeltaArchiveManifest stored in the payload
  pc,                          \* position of main()/ProcessPartition()
  partitions,                  \* std::set<std::string> built from the tokens
  payload,                     \* value returned by mmap()
  idx,                         \* index of the loop over manifest.partitions()
  estimated_total_cow_size,    \* size_t
  actual_total_cow_size,       \* size_t
  exit_code,                   \* value returned by main(), NoExit while running
  log,                         \* LOG/PLOG lines in emission order
  sys,                         \* system calls and collaborator calls, in order
  files,                       \* names of the .cow files existing on disk
  cow_writer,                  \* arguments CreateCowWriter was called with
  calls,                       \* Writer calls of the partition being processed
  next_call,                   \* Interpreter position in its call sequence
  handed                       \* partitions handed to ProcessPartition so far

vars == <<argc, FLAGS_partitions, FLAGS_cow_version, FLAGS_vabc_compression_param,
          payload_manifest, pc, partitions, payload, idx,
          estimated_total_cow_size, actual_total_cow_size, exit_code, log, sys,
          files, cow_writer, calls, next_call, handed>>

flags == <<argc, FLAGS_partitions, FLAGS_cow_version, FLAGS_vabc_compression_param,
           payload_manifest>>

-----------------------------------------------------------------------------
(* Bounds of the model *)

\* longest --partitions string
MaxFlagLen == 3
\* most partitions in a manifest
MaxPartitions == 3
\* largest new-partition size, in blocks
MaxBlocks == 2
\* most extents of one InstallOperation
MaxExtents == 2
\* most InstallOperations of a partition
MaxOps == 2
\* most MergeOperations of a partition
MaxMergeOps == 2
\* width of size_t / uint64 arithmetic, scaled down from 64 bits
SizeBits == 16

-----------------------------------------------------------------------------
(* Values *)

\* How main() ended: still running, returned a code, or killed by a signal.
NoExit == [kind |-> "running", code |-> 0]
Returned(code) == [kind |-> "return", code |-> code]
Killed(sig) == [kind |-> "signal", code |-> sig]
NoWriter == [version |-> 0, compression |-> "", batch_write |-> FALSE,
             block_size |-> 0, op_count_max |-> 0]
NoBlock == 0 - 1
SizeMod == 2 ^ SizeBits

Min(a, b) == IF a < b THEN a ELSE b

RECURSIVE SeqSum(_)
SeqSum(s) == IF s = <<>> THEN 0 ELSE Head(s) + SeqSum(Tail(s))

SeqsUpTo(S, n) == UNION {[1..k -> S] : k \in 0..n}

\* android::base::Tokenize(s, ","): the maximal runs of characters other than
\* the delimiter, in order; empty tokens are dropped.
RECURSIVE TokenizeFrom(_, _, _)
TokenizeFrom(s, cur, acc) ==
  IF s = <<>>
    THEN (IF cur = <<>> THEN acc ELSE Append(acc, cur))
    ELSE IF Head(s) = ","
      THEN TokenizeFrom(Tail(s), <<>>, IF cur = <<>> THEN acc ELSE Append(acc, cur))
      ELSE TokenizeFrom(Tail(s), Append(cur, Head(s)), acc)

Tokenize(s) == TokenizeFrom(s, <<>>, <<>>)

\* Faulty variant: only the first token of --partitions is kept.
TokenSetFirstOnly(str) ==
  LET tokens == Tokenize(str) IN IF tokens = <<>> THEN {} ELSE {tokens[1]}

\* std::set<std::string> partitions(tokens.begin(), tokens.end())
TokenSet(s) == LET tokens == Tokenize(s) IN {tokens[i] : i \in 1..Len(tokens)}

Extent(s, n) == [start_block |-> s, num_blocks |-> n]

Call(c, d, s, n) == [call |-> c, dst |-> d, src |-> s, count |-> n]

-----------------------------------------------------------------------------
(* Install-Plan Interpreter (CowDryRun): the Writer calls for one partition *)

\* ZERO and DISCARD: add_zero_blocks for each destination extent, in order.
ZeroCalls(dst_extents) ==
  [i \in 1..Len(dst_extents) |->
     Call("add_zero_blocks", dst_extents[i].start_block, NoBlock,
          dst_extents[i].num_blocks)]

\* REPLACE variants: the destination blocks are read back from the target
\* image and handed to add_raw_blocks, once for each destination extent.
RawCalls(dst_extents) ==
  [i \in 1..Len(dst_extents) |->
     Call("add_raw_blocks", dst_extents[i].start_block, NoBlock,
          dst_extents[i].num_blocks)]

\* COPY: source and destination extents are traversed in parallel and split
\* so that each add_copy has source and destination runs of equal length.
RECURSIVE CopyRuns(_, _)
CopyRuns(src_extents, dst_extents) ==
  IF src_extents = <<>> \/ dst_extents = <<>>
    THEN <<>>
    ELSE LET s == Head(src_extents)
             d == Head(dst_extents)
             m == Min(s.num_blocks, d.num_blocks)
             rest_s == IF s.num_blocks = m
                         THEN Tail(src_extents)
                         ELSE <<Extent(s.start_block + m, s.num_blocks - m)>>
                              \o Tail(src_extents)
             rest_d == IF d.num_blocks = m
                         THEN Tail(dst_extents)
                         ELSE <<Extent(d.start_block + m, d.num_blocks - m)>>
                              \o Tail(dst_extents)
         IN <<Call("add_copy", d.start_block, s.start_block, m)>>
            \o CopyRuns(rest_s, rest_d)

\* Faulty variant: DISCARD blocks are taken as don't-care and get no call.
OpCallsSkipDiscard(op) ==
  CASE op.type = "ZERO"    -> ZeroCalls(op.dst_extents)
    [] op.type = "DISCARD" -> <<>>
    [] op.type = "REPLACE" -> RawCalls(op.dst_extents)
    [] op.type = "COPY"    -> CopyRuns(op.src_extents, op.dst_extents)

OpCalls(op) ==
  CASE op.type \in {"ZERO", "DISCARD"} -> ZeroCalls(op.dst_extents)
    [] op.type = "REPLACE"             -> RawCalls(op.dst_extents)
    [] op.type = "COPY"                -> CopyRuns(op.src_extents, op.dst_extents)

\* Pass 1: the InstallOperations in manifest order.
RECURSIVE InstallCalls(_)
InstallCalls(operations) ==
  IF operations = <<>> THEN <<>>
  ELSE OpCalls(Head(operations)) \o InstallCalls(Tail(operations))

\* Faulty variant: the merge operations are walked from the last to the first.
MergeCallsReversed(merge_operations) ==
  [i \in 1..Len(merge_operations) |->
     LET m == merge_operations[Len(merge_operations) + 1 - i]
     IN Call("add_copy", m.dst_extent.start_block, m.src_extent.start_block,
             m.dst_extent.num_blocks)]

\* Pass 2: one COPY record for each MergeOperation, in manifest order.
MergeCalls(merge_operations) ==
  [i \in 1..Len(merge_operations) |->
     Call("add_copy", merge_operations[i].dst_extent.start_block,
          merge_operations[i].src_extent.start_block,
          merge_operations[i].dst_extent.num_blocks)]

LabelCall == Call("add_label", NoBlock, NoBlock, 0)
FinalizeCall == Call("finalize", NoBlock, NoBlock, 0)

\* ExtentBoundsError: a run outside the new (destination) or old (source)
\* partition.
InBounds(c, new_blocks, old_blocks) ==
  /\ c.dst >= 0 /\ c.dst + c.count <= new_blocks
  /\ c.call = "add_copy" => (c.src >= 0 /\ c.src + c.count <= old_blocks)

-----------------------------------------------------------------------------
(* Percent-smaller arithmetic of the two size lines *)

\* (actual - estimate) in the type of the subtraction.  Per partition the
\* operands are off_t and uint64, for the totals both are size_t: either way
\* the usual arithmetic conversions make the difference unsigned.
UnsignedDiff(actual, estimate) == (actual - estimate) % SizeMod

\* diff * 100.0f / actual: the float quotient, kept to its integer part, or
\* the non-finite value a zero divisor yields.
PercentSmaller(actual, estimate) ==
  LET diff == UnsignedDiff(actual, estimate)
  IN IF actual = 0
       THEN [class |-> IF diff = 0 THEN "nan" ELSE "inf", value |-> 0]
       ELSE [class |-> "finite", value |-> (diff * 100) \div actual]

-----------------------------------------------------------------------------
(* Log lines and system events *)

Line(sev, text, name) ==
  [severity |-> sev, text |-> text, name |-> name, estimate |-> 0, actual |-> 0,
   percent |-> [class |-> "none", value |-> 0]]

SizeLine(text, name, est, act) ==
  [severity |-> "INFO", text |-> text, name |-> name, estimate |-> est,
   actual |-> act, percent |-> PercentSmaller(act, est)]

Event(what, name, ok) == [what |-> what, name |-> name, ok |-> ok]

-----------------------------------------------------------------------------
(* The program's inputs *)

PartitionNames == {<<"A">>, <<"B">>, <<"C">>}
FlagChars == {"A", "C", ","}
FlagStrings == SeqsUpTo(FlagChars, MaxFlagLen)
Estimates == {0, 100, 200}
ActualSizes == {50, 300}

Partition(name, est, old_blocks, new_blocks, ops, merge_ops, block_size) ==
  [partition_name |-> name, estimate_cow_size |-> est,
   old_partition_size |-> old_blocks * block_size,
   new_partition_size |-> new_blocks * block_size,
   operations |-> ops, merge_operations |-> merge_ops]

InstallOp(type, src, dst) == [type |-> type, src_extents |-> src, dst_extents |-> dst]
MergeOp(src, dst) == [type |-> "COW_COPY", src_extent |-> src, dst_extent |-> dst]

Manifest(block_size, version, compression, parts) ==
  [block_size |-> block_size,
   dynamic_partition_metadata |->
     [cow_version |-> version, vabc_compression_param |-> compression],
   partitions |-> parts]

NewBlocks(manifest, partition) == partition.new_partition_size \div manifest.block_size
OldBlocks(manifest, partition) == partition.old_partition_size \div manifest.block_size

-----------------------------------------------------------------------------
(* main(): the front end *)

manifest == payload_manifest
Cur == manifest.partitions[idx]

\* Faulty variant: the skip test compares with the wrong sign.
SkipsPartitionNegative(partition) == partition.estimate_cow_size < 0

\* if (partition.estimate_cow_size() == 0) continue;
SkipsPartition(partition) == partition.estimate_cow_size = 0

\* if (!partitions.empty() && partitions.count(name) == 0) continue;
FilteredOut(partition, names) ==
  names # {} /\ partition.partition_name \notin names

\* Faulty variant: `=` written for `+=`.
AddSizeOverwrite(total, size) == size % SizeMod

\* total += size, in size_t
AddSize(total, size) == (total + size) % SizeMod

Exit(code) == exit_code' = Returned(code) /\ pc' = "done"

\* gflags parsing, Tokenize, the std::set and the argc check.
ParseFlags ==
  /\ pc = "start"
  /\ partitions' = TokenSet(FLAGS_partitions)
  /\ IF argc # 3
       THEN /\ Exit(0 - 1)
            /\ log' = Append(log, Line("STDOUT", "Usage", <<>>))
       ELSE /\ pc' = "open_payload"
            /\ UNCHANGED <<exit_code, log>>
  /\ UNCHANGED <<flags, payload, idx, estimated_total_cow_size,
                 actual_total_cow_size, sys, files, cow_writer, calls, next_call,
                 handed>>

\* open(payload_path, O_RDONLY)
OpenPayload ==
  /\ pc = "open_payload"
  /\ \E payload_fd \in {0 - 1, 3} :
       /\ sys' = Append(sys, Event("open_payload", <<>>, payload_fd >= 0))
       /\ IF payload_fd < 0
            THEN /\ log' = Append(log, Line("ERROR", "Failed to open payload file:", <<>>))
                 /\ Exit(1)
            ELSE /\ pc' = "file_size"
                 /\ UNCHANGED <<exit_code, log>>
  /\ UNCHANGED <<flags, partitions, payload, idx, estimated_total_cow_size,
                 actual_total_cow_size, files, cow_writer, calls, next_call, handed>>

\* utils::FileSize(payload_fd)
PayloadFileSize ==
  /\ pc = "file_size"
  /\ \E payload_size \in {0 - 1, 0, 1} :
       /\ sys' = Append(sys, Event("payload_size", <<>>, payload_size > 0))
       /\ IF payload_size <= 0
            THEN /\ log' = Append(log, Line("ERROR",
                      "Couldn't determine size of payload file, or payload file is empty",
                      <<>>))
                 /\ Exit(2)
            ELSE /\ pc' = "mmap"
                 /\ UNCHANGED <<exit_code, log>>
  /\ UNCHANGED <<flags, partitions, payload, idx, estimated_total_cow_size,
                 actual_total_cow_size, files, cow_writer, calls, next_call, handed>>

\* What mmap(nullptr, ...) can return: a mapping, or MAP_FAILED ((void*)-1).
MmapResults == {"mapped", "MAP_FAILED"}

\* mmap() and the test of its result against nullptr.
MmapPayload ==
  /\ pc = "mmap"
  /\ \E r \in MmapResults :
       /\ payload' = r
       /\ sys' = Append(sys, Event("mmap", <<>>, r # "MAP_FAILED"))
       /\ IF r = "nullptr"
            THEN /\ log' = Append(log, Line("ERROR", "Failed to mmap() payload file", <<>>))
                 /\ Exit(3)
            ELSE /\ pc' = "parse_header"
                 /\ UNCHANGED <<exit_code, log>>
  /\ UNCHANGED <<flags, partitions, idx, estimated_total_cow_size,
                 actual_total_cow_size, files, cow_writer, calls, next_call, handed>>

\* payload_metadata.ParsePayloadHeader(payload, payload_size, nullptr).  With
\* payload = MAP_FAILED the parser reads through an invalid pointer: the
\* process is killed by the fault, or the bytes read are no valid header.
ParsePayloadHeader ==
  /\ pc = "parse_header"
  /\ \E result \in {"kSuccess", "kError", "fault"} :
       /\ sys' = Append(sys, Event("parse_header", <<>>, result = "kSuccess"))
       /\ payload = "mapped" => result # "fault"
       /\ payload = "MAP_FAILED" => result # "kSuccess"
       /\ CASE result = "fault" ->
                 /\ exit_code' = Killed(11)
                 /\ pc' = "done"
                 /\ UNCHANGED log
            [] result = "kError" ->
                 /\ log' = Append(log, Line("ERROR", "Payload header parse failed!", <<>>))
                 /\ Exit(4)
            [] result = "kSuccess" ->
                 /\ pc' = "get_manifest"
                 /\ UNCHANGED <<exit_code, log>>
  /\ UNCHANGED <<flags, partitions, payload, idx, estimated_total_cow_size,
                 actual_total_cow_size, files, cow_writer, calls, next_call, handed>>

\* payload_metadata.GetManifest(payload, payload_size, &manifest), then the
\* two totals are set to 0.
GetManifest ==
  /\ pc = "get_manifest"
  /\ \E ok \in BOOLEAN :
       /\ sys' = Append(sys, Event("get_manifest", <<>>, ok))
       /\ IF ~ok
         THEN /\ log' = Append(log, Line("ERROR", "Failed to parse manifest!", <<>>))
              /\ Exit(5)
              /\ UNCHANGED <<idx, estimated_total_cow_size, actual_total_cow_size>>
         ELSE /\ pc' = "loop"
              /\ idx' = 1
              /\ estimated_total_cow_size' = 0
              /\ actual_total_cow_size' = 0
              /\ UNCHANGED <<exit_code, log>>
  /\ UNCHANGED <<flags, partitions, payload, files, cow_writer, calls, next_call,
                 handed>>

\* One pass through the head of the loop over manifest.partitions(): the two
\* `continue` tests, then the name line and the call of ProcessPartition.
LoopHead ==
  /\ pc = "loop"
  /\ idx <= Len(manifest.partitions)
  /\ IF SkipsPartition(Cur)
       THEN /\ idx' = idx + 1
            /\ UNCHANGED <<pc, log, handed>>
       ELSE IF FilteredOut(Cur, partitions)
         THEN /\ idx' = idx + 1
              /\ UNCHANGED <<pc, log, handed>>
         ELSE /\ log' = Append(log, Line("INFO", "name", Cur.partition_name))
              /\ handed' = Append(handed, [index |-> idx, result |-> "running",
                                           actual |-> 0])
              /\ pc' = "pp_open_img"
              /\ UNCHANGED idx
  /\ UNCHANGED <<flags, partitions, payload, estimated_total_cow_size,
                 actual_total_cow_size, exit_code, sys, files, cow_writer, calls,
                 next_call>>

\* After the loop: the aggregate line, return 0.
Aggregate ==
  /\ pc = "loop"
  /\ idx > Len(manifest.partitions)
  /\ log' = Append(log, SizeLine("total", <<>>, estimated_total_cow_size,
                                 actual_total_cow_size))
  /\ Exit(0)
  /\ UNCHANGED <<flags, partitions, payload, idx, estimated_total_cow_size,
                 actual_total_cow_size, sys, files, cow_writer, calls, next_call,
                 handed>>

-----------------------------------------------------------------------------
(* ProcessPartition() *)

\* Faulty variant: the failure of ProcessPartition is not turned into exit code 6.
ReturnFalseExitZero ==
  /\ Exit(0)
  /\ handed' = [handed EXCEPT ![Len(handed)].result = "failed"]

\* `return false` in ProcessPartition makes main() return 6.
ReturnFalse ==
  /\ Exit(6)
  /\ handed' = [handed EXCEPT ![Len(handed)].result = "failed"]

\* target_img_fd->Open(<name>.img, O_RDONLY)
OpenTargetImage ==
  /\ pc = "pp_open_img"
  /\ \E ok \in BOOLEAN :
       /\ sys' = Append(sys, Event("open_img", Cur.partition_name, ok))
       /\ IF ~ok
         THEN /\ log' = Append(log, Line("ERROR", "Failed to open img", Cur.partition_name))
              /\ ReturnFalse
         ELSE /\ pc' = "pp_open_cow"
              /\ UNCHANGED <<exit_code, log, handed>>
  /\ UNCHANGED <<flags, partitions, payload, idx, estimated_total_cow_size,
                 actual_total_cow_size, files, cow_writer, calls, next_call>>

\* open(<name>.cow, O_RDWR | O_CREAT, 0744)
OpenOutputCow ==
  /\ pc = "pp_open_cow"
  /\ \E output_fd \in {0 - 1, 4} :
       /\ sys' = Append(sys, Event("open_cow", Cur.partition_name, output_fd >= 0))
       /\ IF output_fd < 0
         THEN /\ log' = Append(log, Line("ERROR", "Failed to open cow", Cur.partition_name))
              /\ ReturnFalse
              /\ UNCHANGED files
         ELSE /\ files' = files \cup {Cur.partition_name}
              /\ pc' = "pp_create_writer"
              /\ UNCHANGED <<exit_code, log, handed>>
  /\ UNCHANGED <<flags, partitions, payload, idx, estimated_total_cow_size,
                 actual_total_cow_size, cow_writer, calls, next_call>>

\* The CowOptions initializer and the compression override.
CowOptionsFor(m, partition, flag_compression) ==
  [block_size |-> m.block_size,
   compression |-> IF flag_compression # ""
                     THEN flag_compression
                     ELSE m.dynamic_partition_metadata.vabc_compression_param,
   batch_write |-> TRUE,
   op_count_max |-> partition.new_partition_size \div m.block_size]

\* Faulty variant: any non-zero --cow_version overrides the manifest.
CowVersionForNonZero(m, flag_version) ==
  IF flag_version # 0 THEN flag_version
  ELSE m.dynamic_partition_metadata.cow_version

\* The version CreateCowWriter is called with.
CowVersionFor(m, flag_version) ==
  IF flag_version > 0 THEN flag_version
  ELSE m.dynamic_partition_metadata.cow_version

\* Whether "Using user specified COW version" is logged.
LogsUserVersion(flag_version) == flag_version > 0

\* CowOptions, the version choice, CreateCowWriter and the test of its result.
CreateCowWriter ==
  /\ pc = "pp_create_writer"
  /\ LET options == CowOptionsFor(manifest, Cur, FLAGS_vabc_compression_param)
         cow_version == CowVersionFor(manifest, FLAGS_cow_version)
         log1 == IF LogsUserVersion(FLAGS_cow_version)
                   THEN Append(log, Line("INFO", "Using user specified COW version",
                                         Cur.partition_name))
                   ELSE log
     IN /\ cow_writer' = [version |-> cow_version,
                          compression |-> options.compression,
                          batch_write |-> options.batch_write,
                          block_size |-> options.block_size,
                          op_count_max |-> options.op_count_max]
        /\ calls' = <<>>
        /\ next_call' = 1
        /\ \E created \in BOOLEAN :
             /\ sys' = Append(sys, Event("create_writer", Cur.partition_name, created))
             /\ IF ~created
                  THEN /\ log' = Append(log1, Line("ERROR", "TEST_AND_RETURN_FALSE",
                                                   Cur.partition_name))
                       /\ ReturnFalse
                  ELSE /\ log' = log1
                       /\ pc' = "pp_dry_run"
                       /\ UNCHANGED <<exit_code, handed>>
  /\ UNCHANGED <<flags, partitions, payload, idx, estimated_total_cow_size,
                 actual_total_cow_size, files>>

\* The call of CowDryRun with the partition's operations, merge operations
\* and sizes.
CallCowDryRun ==
  /\ pc = "pp_dry_run"
  /\ sys' = Append(sys, Event("cow_dry_run", Cur.partition_name, TRUE))
  /\ pc' = "pp_install"
  /\ UNCHANGED <<flags, partitions, payload, idx, estimated_total_cow_size,
                 actual_total_cow_size, exit_code, log, files, cow_writer, calls,
                 next_call, handed>>

\* CowDryRun failed: TEST_AND_RETURN_FALSE logs and returns false.
InterpreterFails ==
  /\ sys' = Append(sys, Event("cow_dry_run_return", Cur.partition_name, FALSE))
  /\ log' = Append(log, Line("ERROR", "TEST_AND_RETURN_FALSE", Cur.partition_name))
  /\ ReturnFalse
  /\ UNCHANGED <<calls, next_call>>

\* CowDryRun, pass 1: the next Writer call of the install operations.  It is
\* not made when its run is out of bounds, when the target image cannot be
\* read, or when the Writer refuses it.
InterpretInstall ==
  /\ pc = "pp_install"
  /\ next_call <= Len(InstallCalls(Cur.operations))
  /\ LET c == InstallCalls(Cur.operations)[next_call]
     IN IF ~InBounds(c, NewBlocks(manifest, Cur), OldBlocks(manifest, Cur))
          THEN InterpreterFails
          ELSE \E ok \in BOOLEAN :
                 IF ~ok
                   THEN InterpreterFails
                   ELSE /\ calls' = Append(calls, c)
                        /\ next_call' = next_call + 1
                        /\ UNCHANGED <<pc, exit_code, log, sys, handed>>
  /\ UNCHANGED <<flags, partitions, payload, idx, estimated_total_cow_size,
                 actual_total_cow_size, files, cow_writer>>

\* CowDryRun, between the passes: the label that separates the initial write
\* from the merge ordering.
InterpretLabel ==
  /\ pc = "pp_install"
  /\ next_call > Len(InstallCalls(Cur.operations))
  /\ \E ok \in BOOLEAN :
       IF ~ok
         THEN InterpreterFails
         ELSE /\ calls' = Append(calls, LabelCall)
              /\ next_call' = 1
              /\ pc' = "pp_merge"
              /\ UNCHANGED <<exit_code, log, sys, handed>>
  /\ UNCHANGED <<flags, partitions, payload, idx, estimated_total_cow_size,
                 actual_total_cow_size, files, cow_writer>>

\* CowDryRun with no MergeOperations: the expected traces of such partitions
\* (scenarios 1 to 3) go from the install calls straight to finalize.
InterpretNoMerge ==
  /\ pc = "pp_install"
  /\ next_call > Len(InstallCalls(Cur.operations))
  /\ Cur.merge_operations = <<>>
  /\ sys' = Append(sys, Event("cow_dry_run_return", Cur.partition_name, TRUE))
  /\ pc' = "pp_finalize"
  /\ UNCHANGED <<flags, partitions, payload, idx, estimated_total_cow_size,
                 actual_total_cow_size, exit_code, log, files, cow_writer,
                 calls, next_call, handed>>

\* CowDryRun, pass 2: the COPY record of the next MergeOperation.
InterpretMerge ==
  /\ pc = "pp_merge"
  /\ next_call <= Len(MergeCalls(Cur.merge_operations))
  /\ \E ok \in BOOLEAN :
       IF ~ok
         THEN InterpreterFails
         ELSE /\ calls' = Append(calls, MergeCalls(Cur.merge_operations)[next_call])
              /\ next_call' = next_call + 1
              /\ UNCHANGED <<pc, exit_code, log, sys, handed>>
  /\ UNCHANGED <<flags, partitions, payload, idx, estimated_total_cow_size,
                 actual_total_cow_size, files, cow_writer>>

\* CowDryRun returns true.
InterpretDone ==
  /\ pc = "pp_merge"
  /\ next_call > Len(MergeCalls(Cur.merge_operations))
  /\ sys' = Append(sys, Event("cow_dry_run_return", Cur.partition_name, TRUE))
  /\ pc' = "pp_finalize"
  /\ UNCHANGED <<flags, partitions, payload, idx, estimated_total_cow_size,
                 actual_total_cow_size, exit_code, log, files, cow_writer,
                 calls, next_call, handed>>

\* Faulty variant: the result of Finalize() is not tested.
FinalizeUnchecked ==
  /\ pc = "pp_finalize"
  /\ calls' = Append(calls, FinalizeCall)
  /\ \E ok \in BOOLEAN :
       sys' = Append(sys, Event("finalize", Cur.partition_name, ok))
  /\ pc' = "stat"
  /\ handed' = [handed EXCEPT ![Len(handed)].result = "ok"]
  /\ UNCHANGED <<flags, partitions, payload, idx, estimated_total_cow_size,
                 actual_total_cow_size, exit_code, log, files, cow_writer, next_call>>

\* cow_writer->Finalize(), then `return true`.
Finalize ==
  /\ pc = "pp_finalize"
  /\ calls' = Append(calls, FinalizeCall)
  /\ \E ok \in BOOLEAN :
       /\ sys' = Append(sys, Event("finalize", Cur.partition_name, ok))
       /\ IF ~ok
         THEN /\ log' = Append(log, Line("ERROR", "TEST_AND_RETURN_FALSE",
                                         Cur.partition_name))
              /\ ReturnFalse
         ELSE /\ pc' = "stat"
              /\ handed' = [handed EXCEPT ![Len(handed)].result = "ok"]
              /\ UNCHANGED <<exit_code, log>>
  /\ UNCHANGED <<flags, partitions, payload, idx, estimated_total_cow_size,
                 actual_total_cow_size, files, cow_writer, next_call>>

\* Back in main(): FileSize(<name>.cow), the partition's size line and the
\* two additions.
StatAndReport ==
  /\ pc = "stat"
  /\ \E actual_cow_size \in ActualSizes :
       /\ sys' = Append(sys, Event("stat_cow", Cur.partition_name, TRUE))
       /\ log' = Append(log, SizeLine("partition", Cur.partition_name,
                                      Cur.estimate_cow_size, actual_cow_size))
       /\ estimated_total_cow_size' =
            AddSize(estimated_total_cow_size, Cur.estimate_cow_size)
       /\ actual_total_cow_size' = AddSize(actual_total_cow_size, actual_cow_size)
       /\ handed' = [handed EXCEPT ![Len(handed)].actual = actual_cow_size]
  /\ idx' = idx + 1
  /\ pc' = "loop"
  /\ UNCHANGED <<flags, partitions, payload, exit_code, files, cow_writer, calls,
                 next_call>>

-----------------------------------------------------------------------------
(* Initial states: the command line, the payload's manifest, a fresh run *)

Fresh ==
  /\ pc = "start"
  /\ partitions = {}
  /\ payload = "unmapped"
  /\ idx = 0
  /\ estimated_total_cow_size = 0
  /\ actual_total_cow_size = 0
  /\ exit_code = NoExit
  /\ log = <<>>
  /\ sys = <<>>
  /\ files = {}
  /\ cow_writer = NoWriter
  /\ calls = <<>>
  /\ next_call = 1
  /\ handed = <<>>

\* Number of destination extents of the operations that contain block b.
RECURSIVE ExtentCover(_, _)
ExtentCover(extents, b) ==
  IF extents = <<>> THEN 0
  ELSE (IF Head(extents).start_block <= b
           /\ b < Head(extents).start_block + Head(extents).num_blocks
          THEN 1 ELSE 0) + ExtentCover(Tail(extents), b)

RECURSIVE OpsCover(_, _)
OpsCover(operations, b) ==
  IF operations = <<>> THEN 0
  ELSE ExtentCover(Head(operations).dst_extents, b) + OpsCover(Tail(operations), b)

RECURSIVE ExtentBlocks(_)
ExtentBlocks(extents) ==
  IF extents = <<>> THEN 0
  ELSE Head(extents).num_blocks + ExtentBlocks(Tail(extents))

\* The data-model invariants of a partition's InstallOperations: every
\* destination extent inside the new partition, every block covered exactly
\* once, COPY sources inside the old partition.
ExtentsInside(extents, blocks) ==
  \A i \in 1..Len(extents) :
    /\ extents[i].start_block >= 0
    /\ extents[i].num_blocks >= 1
    /\ extents[i].start_block + extents[i].num_blocks <= blocks

WellFormed(partition, block_size) ==
  LET nb == partition.new_partition_size \div block_size
      ob == partition.old_partition_size \div block_size
  IN /\ partition.new_partition_size % block_size = 0
     /\ \A i \in 1..Len(partition.operations) :
          /\ ExtentsInside(partition.operations[i].dst_extents, nb)
          /\ ExtentsInside(partition.operations[i].src_extents, ob)
     /\ \A b \in 0..(nb - 1) : OpsCover(partition.operations, b) = 1

\* Blocks covered twice or lying outside the new partition.
Excess(operations, nb) ==
  SeqSum([b \in 1..(nb + 1) |->
            LET c == OpsCover(operations, b - 1)
            IN IF b - 1 < nb THEN (IF c > 1 THEN c - 1 ELSE 0) ELSE c])

Gaps(operations, nb) ==
  SeqSum([b \in 1..nb |-> IF OpsCover(operations, b - 1) = 0 THEN 1 ELSE 0])

\* Destination extents offered: those inside the new partition and those
\* leaving it by one block.
DstExtents(nb) ==
  UNION {{Extent(st, n) : n \in 1..(nb + 1 - st)} : st \in 0..(nb - 1)}

\* Extent lists of one operation with at most one block in excess.
ExtentLists(E, nb) ==
  {l \in UNION {[1..k -> E] : k \in 1..MaxExtents} :
     SeqSum([b \in 1..(nb + 1) |->
               LET c == ExtentCover(l, b - 1)
               IN IF b - 1 < nb THEN (IF c > 1 THEN c - 1 ELSE 0) ELSE c]) <= 1}

\* Source extents offered for a COPY of t blocks: one run, and either a run
\* pair split at another place than the destination or, for a single block,
\* a block outside the old image.
SrcChoices(t, ob) ==
  {<<Extent(0, t)>>}
  \cup (IF t >= 2 THEN {<<Extent(ob - 1, 1), Extent(0, t - 1)>>}
                  ELSE {<<Extent(ob, 1)>>})

InstallOps(nb, ob) ==
  {InstallOp(type, <<>>, d) : type \in {"ZERO", "DISCARD", "REPLACE"},
                              d \in ExtentLists(DstExtents(nb), nb)}
  \cup UNION {{InstallOp("COPY", sr, d) : sr \in SrcChoices(ExtentBlocks(d), ob)} :
              d \in ExtentLists(DstExtents(nb), nb)}

\* Operation lists, built one operation at a time, that break the coverage
\* invariant in at most one block.
RECURSIVE OpsBlocks(_)
OpsBlocks(operations) ==
  IF operations = <<>> THEN 0
  ELSE ExtentBlocks(Head(operations).dst_extents) + OpsBlocks(Tail(operations))

\* ops_of[t] are the operations writing t blocks; a list may write nb + 1
\* blocks at most.
RECURSIVE OpListsUpTo(_, _, _)
OpListsUpTo(k, ops_of, nb) ==
  IF k = 0 THEN {<<>>}
  ELSE LET shorter == OpListsUpTo(k - 1, ops_of, nb)
       IN shorter \cup
          UNION {{Append(h, o) :
                    o \in {x \in UNION {ops_of[t] : t \in 1..(nb + 1 - OpsBlocks(h))} :
                             Excess(Append(h, x), nb) <= 1}} :
                 h \in {l \in shorter : Len(l) = k - 1}}

OpLists(nb, ob) ==
  LET ops == InstallOps(nb, ob)
      ops_of == [t \in 1..(nb + 1) |-> {x \in ops : ExtentBlocks(x.dst_extents) = t}]
  IN {l \in OpListsUpTo(MaxOps, ops_of, nb) : Excess(l, nb) + Gaps(l, nb) <= 1}

MergeOps(nb, ob) ==
  UNION {{MergeOp(Extent(ob - n, n), Extent(d, n)) : n \in 1..(nb - d)} :
         d \in 0..(nb - 1)}

MergeLists(nb, ob) == SeqsUpTo(MergeOps(nb, ob), MaxMergeOps)

\* The partitions of the Interpreter runs: every bounded operation list with
\* no or one MergeOperation, and one ZERO operation with every bounded list
\* of MergeOperations.
InterpreterInputs(nb, ob) ==
  (OpLists(nb, ob) \X {<<>>, <<MergeOp(Extent(ob - 1, 1), Extent(0, 1))>>})
  \cup ({<<InstallOp("ZERO", <<>>, <<Extent(0, nb)>>)>>} \X MergeLists(nb, ob))

\* The operations of the partitions of the batch runs, by name.
BatchPartition(name, est) ==
  CASE name = <<"A">> ->
         Partition(name, est, 1, 1, <<InstallOp("ZERO", <<>>, <<Extent(0, 1)>>)>>,
                   <<>>, 4096)
    [] name = <<"B">> ->
         Partition(name, est, 2, 2,
                   <<InstallOp("ZERO", <<>>, <<Extent(0, 1)>>),
                     InstallOp("COPY", <<Extent(1, 1)>>, <<Extent(1, 1)>>)>>,
                   <<MergeOp(Extent(1, 1), Extent(1, 1))>>, 4096)
    [] OTHER ->
         Partition(name, est, 1, 1, <<InstallOp("REPLACE", <<>>, <<Extent(0, 1)>>)>>,
                   <<>>, 4096)

DistinctNames(names) ==
  \A i, j \in 1..Len(names) : i # j => names[i] # names[j]

BatchPartitionLists ==
  UNION {{[i \in 1..Len(names) |-> BatchPartition(names[i], ests[i])] :
          ests \in [1..Len(names) -> Estimates]} :
         names \in {n \in SeqsUpTo(PartitionNames, MaxPartitions) : DistinctNames(n)}}

\* Batch runs: every --partitions string against every manifest of distinct
\* partitions.
InitBatch ==
  /\ argc = 3
  /\ FLAGS_partitions \in FlagStrings
  /\ FLAGS_cow_version = 0
  /\ FLAGS_vabc_compression_param = ""
  /\ payload_manifest \in {Manifest(4096, 2, "gz", parts) : parts \in BatchPartitionLists}
  /\ Fresh

\* Runs that vary the argument count and the two override flags.
InitOptions ==
  /\ argc \in {2, 3}
  /\ FLAGS_partitions \in {<<>>, <<"B">>}
  /\ FLAGS_cow_version \in {0 - 1, 0, 2, 3}
  /\ FLAGS_vabc_compression_param \in {"", "lz4"}
  /\ payload_manifest \in
       {Manifest(4096, v, c, <<BatchPartition(<<"A">>, 100), BatchPartition(<<"B">>, 200)>>) :
          v \in {2, 3}, c \in {"", "gz"}}
  /\ Fresh

\* Runs over one partition, of every size up to MaxBlocks.
InitInterpreter ==
  /\ argc = 3
  /\ FLAGS_partitions = <<>>
  /\ FLAGS_cow_version = 0
  /\ FLAGS_vabc_compression_param = ""
  /\ \E nb \in 1..MaxBlocks :
       payload_manifest \in
         {Manifest(4096, 2, "gz",
                   <<Partition(<<"A">>, 100, MaxBlocks, nb, in[1], in[2], 4096)>>) :
            in \in InterpreterInputs(nb, MaxBlocks)}
  /\ Fresh

Init == InitBatch \/ InitOptions \/ InitInterpreter

Next ==
  \/ ParseFlags
  \/ OpenPayload
  \/ PayloadFileSize
  \/ MmapPayload
  \/ ParsePayloadHeader
  \/ GetManifest
  \/ LoopHead
  \/ Aggregate
  \/ OpenTargetImage
  \/ OpenOutputCow
  \/ CreateCowWriter
  \/ CallCowDryRun
  \/ InterpretInstall
  \/ InterpretLabel
  \/ InterpretNoMerge
  \/ InterpretMerge
  \/ InterpretDone
  \/ Finalize
  \/ StatAndReport

Spec == Init /\ [][Next]_vars

SpecBatch == InitBatch /\ [][Next]_vars
SpecOptions == InitOptions /\ [][Next]_vars
SpecInterpreter == InitInterpreter /\ [][Next]_vars

-----------------------------------------------------------------------------
(* Vocabulary of the properties *)

NParts == Len(manifest.partitions)
PartName(i) == manifest.partitions[i].partition_name
Estimate(i) == manifest.partitions[i].estimate_cow_size

\* The names given on the command line: name is one of the comma-separated
\* fields of the --partitions string.
IsCsvField(name, str) ==
  /\ name # <<>>
  /\ \A k \in 1..Len(name) : name[k] # ","
  /\ \E i \in 1..Len(str) :
       /\ i + Len(name) - 1 <= Len(str)
       /\ SubSeq(str, i, i + Len(name) - 1) = name
       /\ (i = 1 \/ str[i - 1] = ",")
       /\ (i + Len(name) - 1 = Len(str) \/ str[i + Len(name)] = ",")

NoNamesGiven(str) == \A k \in 1..Len(str) : str[k] = ","

\* Partition i is selected: non-zero estimate, and named unless no name is given.
Selected(i) ==
  /\ Estimate(i) # 0
  /\ NoNamesGiven(FLAGS_partitions) \/ IsCsvField(PartName(i), FLAGS_partitions)

\* The selected indices among lo..hi, in manifest order.
RECURSIVE SelectedFrom(_, _)
SelectedFrom(lo, hi) ==
  IF lo > hi THEN <<>>
  ELSE (IF Selected(lo) THEN <<lo>> ELSE <<>>) \o SelectedFrom(lo + 1, hi)

HandedIndices == [k \in 1..Len(handed) |-> handed[k].index]

InPartition ==
  pc \in {"pp_open_img", "pp_open_cow", "pp_create_writer", "pp_dry_run",
          "pp_install", "pp_merge", "pp_finalize", "stat"}

\* The loop has looked at the partitions 1..Looked.
Looked ==
  IF pc = "loop" \/ exit_code = Returned(0) THEN idx - 1
  ELSE IF InPartition \/ exit_code = Returned(6) THEN idx
  ELSE 0

EventsOf(name) == SelectSeq(sys, LAMBDA e : e.name = name)
LinesOf(name) == SelectSeq(log, LAMBDA l : l.name = name)
PartitionLines == SelectSeq(log, LAMBDA l : l.text = "partition")
TotalLines == SelectSeq(log, LAMBDA l : l.text = "total")

-----------------------------------------------------------------------------
(* C1: a partition whose estimate_cow_size is 0 is skipped before any        *)
(* per-partition work: no system call or collaborator call names it, no     *)
(* <name>.cow file exists, no log line names it, it is never handed to      *)
(* ProcessPartition, and the two totals are the sums over the size lines    *)
(* of the other partitions; this holds whether or not --partitions names it.*)
C1_ZeroEstimateSkipped ==
  /\ \A i \in 1..NParts :
       Estimate(i) = 0 =>
         /\ EventsOf(PartName(i)) = <<>>
         /\ PartName(i) \notin files
         /\ LinesOf(PartName(i)) = <<>>
         /\ \A k \in 1..Len(handed) : handed[k].index # i
  /\ estimated_total_cow_size =
       SeqSum([k \in 1..Len(PartitionLines) |-> PartitionLines[k].estimate])
  /\ actual_total_cow_size =
       SeqSum([k \in 1..Len(PartitionLines) |-> PartitionLines[k].actual])

\* A finished run in which a named partition with estimate 0 was passed over
\* and a later partition was processed.
C1_Witness ==
  /\ exit_code = Returned(0)
  /\ \E i \in 1..NParts :
       /\ Estimate(i) = 0
       /\ IsCsvField(PartName(i), FLAGS_partitions)
       /\ \E k \in 1..Len(handed) : handed[k].index > i /\ handed[k].result = "ok"

-----------------------------------------------------------------------------
(* C2: the partitions handed to ProcessPartition are, in manifest order,    *)
(* exactly the partitions looked at so far that have a non-zero estimate    *)
(* and are named in --partitions (all of them when no name is given); a run *)
(* fails only in a partition it was handed, so a name matching no partition *)
(* causes neither work nor failure.                                         *)
C2_FilterInManifestOrder ==
  /\ HandedIndices = SelectedFrom(1, Looked)
  /\ exit_code = Returned(0) => Looked = NParts
  /\ exit_code = Returned(6) =>
       handed # <<>> /\ handed[Len(handed)].result = "failed"

\* Names given as "C,A" (and a manifest A, B, C): A then C are processed.
C2_Witness ==
  /\ exit_code = Returned(0)
  /\ FLAGS_partitions = <<"C", ",", "A">>
  /\ NParts = 3
  /\ \A i \in 1..3 : Estimate(i) # 0
  /\ PartName(1) = <<"A">> /\ PartName(2) = <<"B">> /\ PartName(3) = <<"C">>
  /\ HandedIndices = <<1, 3>>

-----------------------------------------------------------------------------
(* C3: a failure in any step of a partition's processing ends the run at    *)
(* that partition with exit code 6: the failed partition is the last one    *)
(* handed, it gets no size line, no aggregate line is written, and no later *)
(* partition of the manifest is touched or logged; exit code 0 is returned  *)
(* only when every selected partition was processed successfully.           *)
C3_FailureAbortsBatch ==
  /\ \A k \in 1..Len(handed) :
       handed[k].result = "failed" =>
         /\ k = Len(handed)
         /\ handed[k].index = idx
         /\ pc = "done"
         /\ exit_code = Returned(6)
         /\ \A j \in 1..Len(PartitionLines) : PartitionLines[j].name # PartName(idx)
         /\ TotalLines = <<>>
         /\ \A j \in (idx + 1)..NParts :
              EventsOf(PartName(j)) = <<>> /\ LinesOf(PartName(j)) = <<>>
  /\ \A e \in 1..Len(sys) :
       (sys[e].name # <<>> /\ ~sys[e].ok) =>
         /\ e = Len(sys)
         /\ exit_code = Returned(6)
         /\ handed[Len(handed)].result = "failed"
         /\ sys[e].name = PartName(idx)
  /\ exit_code = Returned(0) =>
       /\ \A k \in 1..Len(handed) : handed[k].result = "ok"
       /\ HandedIndices = SelectedFrom(1, NParts)
       /\ Len(TotalLines) = 1

\* The Interpreter fails in the second processed partition while a later
\* partition is still selected.
C3_Witness ==
  /\ exit_code = Returned(6)
  /\ Len(handed) = 2
  /\ sys[Len(sys)] = [what |-> "cow_dry_run_return", name |-> PartName(idx), ok |-> FALSE]
  /\ \E j \in (idx + 1)..NParts : Selected(j)

\* Entry k of `handed` has been added to the totals.
Counted(k) == handed[k].result = "ok" /\ ~(k = Len(handed) /\ pc = "stat")

-----------------------------------------------------------------------------
(* C8: after each iteration of the loop and at the aggregate line,          *)
(* estimated_total_cow_size is the sum of the estimates and                 *)
(* actual_total_cow_size the sum of the stat'ed sizes of exactly the        *)
(* partitions processed successfully so far, all of them selected ones;     *)
(* the aggregate line reports these two totals.                             *)
C8_TotalsAreSums ==
  /\ estimated_total_cow_size =
       SeqSum([k \in 1..Len(handed) |->
                 IF Counted(k) THEN Estimate(handed[k].index) ELSE 0])
  /\ actual_total_cow_size =
       SeqSum([k \in 1..Len(handed) |-> IF Counted(k) THEN handed[k].actual ELSE 0])
  /\ \A k \in 1..Len(handed) : Selected(handed[k].index)
  /\ \A j \in 1..Len(TotalLines) :
       /\ TotalLines[j].estimate = estimated_total_cow_size
       /\ TotalLines[j].actual = actual_total_cow_size
       /\ \A k \in 1..Len(handed) : Counted(k)

\* A = 100, B = 0, C = 200 with --partitions=A,C: the totals line reports 300.
C8_Witness ==
  /\ exit_code = Returned(0)
  /\ FLAGS_partitions = <<"A", ",", "C">>
  /\ NParts = 3
  /\ PartName(1) = <<"A">> /\ PartName(2) = <<"B">> /\ PartName(3) = <<"C">>
  /\ Estimate(1) = 100 /\ Estimate(2) = 0 /\ Estimate(3) = 200
  /\ estimated_total_cow_size = 300
  /\ actual_total_cow_size = handed[1].actual + handed[2].actual
  /\ TotalLines # <<>>

\* The events of one ProcessPartition call and its size line, in order.
StepOrder ==
  <<"open_img", "open_cow", "create_writer", "cow_dry_run", "cow_dry_run_return",
    "finalize", "stat_cow">>

IsPrefix(p, q) == Len(p) <= Len(q) /\ SubSeq(q, 1, Len(p)) = p

-----------------------------------------------------------------------------
(* C10: ProcessPartition performs its steps in the order open target image, *)
(* open/create output, construct Writer, run Interpreter, finalize, each    *)
(* only after the one before succeeded; finalize is called at most once     *)
(* and is the last Writer call; the partition counts as processed only if   *)
(* finalize succeeded; an output file once created stays on disk, whatever  *)
(* fails afterwards, and none exists unless its open succeeded.             *)
C10_StepOrder ==
  /\ \A k \in 1..Len(handed) :
       LET name == PartName(handed[k].index)
           ev == EventsOf(name)
       IN /\ IsPrefix([e \in 1..Len(ev) |-> ev[e].what], StepOrder)
          /\ \A e \in 1..(Len(ev) - 1) : ev[e].ok
          /\ handed[k].result = "ok" <=>
               \E e \in 1..Len(ev) : ev[e].what = "finalize" /\ ev[e].ok
          /\ name \in files <=>
               \E e \in 1..Len(ev) : ev[e].what = "open_cow" /\ ev[e].ok
  /\ \A i \in 1..Len(calls) :
       calls[i] = FinalizeCall =>
         /\ i = Len(calls)
         /\ pc \notin {"pp_dry_run", "pp_install", "pp_merge", "pp_finalize"}
  /\ (pc = "done" /\ sys # <<>> /\ sys[Len(sys)].what = "create_writer"
        /\ ~sys[Len(sys)].ok) => calls = <<>>

\* Finalize fails: the run ends with 6 and the partition's file is on disk.
C10_Witness ==
  /\ exit_code = Returned(6)
  /\ sys[Len(sys)].what = "finalize"
  /\ ~sys[Len(sys)].ok
  /\ PartName(idx) \in files
  /\ Len(calls) >= 3

UserVersionLines ==
  SelectSeq(log, LAMBDA l : l.text = "Using user specified COW version")
CreateWriterEvents == SelectSeq(sys, LAMBDA e : e.what = "create_writer")

-----------------------------------------------------------------------------
(* C7: the Writer is constructed with the --cow_version value when that is  *)
(* greater than 0 and with the manifest's COW version otherwise (for 0 and  *)
(* for negative values too), with the --vabc_compression_param value when   *)
(* non-empty and the manifest's parameter otherwise, always with            *)
(* batch_write; "Using user specified COW version" is logged once for each  *)
(* Writer construction when the command-line version is used and never      *)
(* otherwise.                                                               *)
C7_WriterOptions ==
  /\ cow_writer = NoWriter <=> CreateWriterEvents = <<>>
  /\ cow_writer # NoWriter =>
       /\ FLAGS_cow_version > 0 => cow_writer.version = FLAGS_cow_version
       /\ FLAGS_cow_version <= 0 =>
            cow_writer.version = manifest.dynamic_partition_metadata.cow_version
       /\ FLAGS_vabc_compression_param # "" =>
            cow_writer.compression = FLAGS_vabc_compression_param
       /\ FLAGS_vabc_compression_param = "" =>
            cow_writer.compression =
              manifest.dynamic_partition_metadata.vabc_compression_param
       /\ cow_writer.batch_write
  /\ Len(UserVersionLines) =
       (IF FLAGS_cow_version > 0 THEN Len(CreateWriterEvents) ELSE 0)

\* A negative --cow_version with a compression override: the manifest's
\* version 3 and the command line's "lz4" reach the Writer.
C7_Witness ==
  /\ FLAGS_cow_version < 0
  /\ FLAGS_vabc_compression_param = "lz4"
  /\ manifest.dynamic_partition_metadata.cow_version = 3
  /\ manifest.dynamic_partition_metadata.vabc_compression_param = "gz"
  /\ cow_writer # NoWriter
  /\ cow_writer.version = 3
  /\ cow_writer.compression = "lz4"

\* The exit code of each front-end step, as documented.
FrontEndCode(what) ==
  CASE what = "open_payload" -> 1
    [] what = "payload_size" -> 2
    [] what = "mmap"         -> 3
    [] what = "parse_header" -> 4
    [] what = "get_manifest" -> 5
    [] OTHER                 -> 0

-----------------------------------------------------------------------------
(* C4: when mmap of the payload fails the process returns 3 before the      *)
(* header or the manifest is parsed; each front-end failure returns its own *)
(* code (1 open, 2 size, 3 mmap, 4 header, 5 manifest), and none of these   *)
(* codes is returned after a partition has been handed to ProcessPartition. *)
C4_FrontEndExitCodes ==
  /\ \A e \in 1..Len(sys) :
       (sys[e].name = <<>> /\ ~sys[e].ok) =>
         /\ e = Len(sys)
         /\ exit_code = Returned(FrontEndCode(sys[e].what))
         /\ handed = <<>>
  /\ (exit_code.kind = "return" /\ exit_code.code \in 1..5) => handed = <<>>

-----------------------------------------------------------------------------
(* C9: in every size line, of a partition or of the totals, the reported    *)
(* percentage is negative when the estimate exceeds a positive actual size  *)
(* and non-negative when a positive actual size is at least the estimate.   *)
C9_SignConvention ==
  \A j \in 1..Len(log) :
    log[j].text \in {"partition", "total"} =>
      /\ (log[j].actual > 0 /\ log[j].estimate > log[j].actual) =>
           (log[j].percent.class = "finite" /\ log[j].percent.value < 0)
      /\ (log[j].actual > 0 /\ log[j].actual >= log[j].estimate) =>
           (log[j].percent.class = "finite" /\ log[j].percent.value >= 0)

-----------------------------------------------------------------------------
(* Vocabulary of the Writer traces *)

\* The state right after cow_writer->Finalize() was called for partition Cur.
JustFinalized == sys # <<>> /\ sys[Len(sys)].what = "finalize"

CoversBlock(c, b) ==
  /\ c.call \in {"add_zero_blocks", "add_raw_blocks", "add_copy"}
  /\ c.dst <= b
  /\ b < c.dst + c.count

\* How many of the calls cover destination block b.
CallsCover(cs, b) == SeqSum([i \in 1..Len(cs) |-> IF CoversBlock(cs[i], b) THEN 1 ELSE 0])

\* The calls made before the label (before finalize when there is no label).
InstallPart(cs) ==
  LET stops == {i \in 1..Len(cs) : cs[i].call \in {"add_label", "finalize"}}
  IN IF stops = {} THEN cs
     ELSE SubSeq(cs, 1, (CHOOSE i \in stops : \A j \in stops : i <= j) - 1)

\* How many MergeOperations have block b in their destination extent.
MergeCover(merge_operations, b) ==
  SeqSum([i \in 1..Len(merge_operations) |->
            IF /\ merge_operations[i].dst_extent.start_block <= b
               /\ b < merge_operations[i].dst_extent.start_block
                      + merge_operations[i].dst_extent.num_blocks
              THEN 1 ELSE 0])

\* The blocks of an extent list, in order.
RECURSIVE BlocksOf(_)
BlocksOf(extents) ==
  IF extents = <<>> THEN <<>>
  ELSE [k \in 1..Head(extents).num_blocks |-> Head(extents).start_block + k - 1]
       \o BlocksOf(Tail(extents))

\* The offsets at which an extent of the list ends.
ExtentEnds(extents) ==
  {ExtentBlocks(SubSeq(extents, 1, k)) : k \in 1..Len(extents)}

RECURSIVE Ascending(_)
Ascending(S) ==
  IF S = {} THEN <<>>
  ELSE LET least == CHOOSE x \in S : \A y \in S : x <= y
       IN <<least>> \o Ascending(S \ {least})

\* A COPY operation as aligned runs: the source and destination block lists
\* side by side, cut wherever a source extent or a destination extent ends.
AlignedRuns(op) ==
  LET sb == BlocksOf(op.src_extents)
      db == BlocksOf(op.dst_extents)
      n == Min(Len(sb), Len(db))
      ends == ExtentEnds(op.src_extents) \cup ExtentEnds(op.dst_extents) \cup {n}
      cuts == Ascending({c \in ends : 0 < c /\ c <= n})
  IN [i \in 1..Len(cuts) |->
        LET from == IF i = 1 THEN 0 ELSE cuts[i - 1]
        IN Call("add_copy", db[from + 1], sb[from + 1], cuts[i] - from)]

\* One call for each destination extent of an operation, by its type.
PerExtent(op) ==
  [i \in 1..Len(op.dst_extents) |->
     Call(CASE op.type \in {"ZERO", "DISCARD"} -> "add_zero_blocks"
            [] op.type = "REPLACE" -> "add_raw_blocks"
            [] OTHER -> "add_copy",
          op.dst_extents[i].start_block, NoBlock, op.dst_extents[i].num_blocks)]

RECURSIVE FlatMap(_, _)
FlatMap(F(_), seq) ==
  IF seq = <<>> THEN <<>> ELSE F(Head(seq)) \o FlatMap(F, Tail(seq))

MergeCopies(merge_operations) ==
  [i \in 1..Len(merge_operations) |->
     Call("add_copy", merge_operations[i].dst_extent.start_block,
          merge_operations[i].src_extent.start_block,
          merge_operations[i].dst_extent.num_blocks)]

\* A call without the source block.
NoSrc(cs) == [i \in 1..Len(cs) |-> [cs[i] EXCEPT !.src = NoBlock]]

-----------------------------------------------------------------------------
(* C5 as stated: for a partition with a non-empty InstallOperation list     *)
(* that satisfies the data-model invariants, all Writer calls up to         *)
(* finalize together cover each block 0 .. new_partition_size/block_size-1  *)
(* exactly once, also when the partition has MergeOperations.               *)
C5_AllCallsCoverOnce ==
  (JustFinalized /\ Cur.operations # <<>> /\ WellFormed(Cur, manifest.block_size)) =>
    \A b \in 0..(NewBlocks(manifest, Cur) - 1) : CallsCover(calls, b) = 1

(* C5 amended: the install-pass calls (those before the label) cover each   *)
(* block of the new partition exactly once and no block outside it; over    *)
(* all calls up to finalize a block is covered once more for each           *)
(* MergeOperation whose destination extent contains it.                     *)
C5_InstallCallsCoverOnce ==
  (JustFinalized /\ Cur.operations # <<>> /\ WellFormed(Cur, manifest.block_size)) =>
    /\ \A b \in 0..(NewBlocks(manifest, Cur) - 1) :
         /\ CallsCover(InstallPart(calls), b) = 1
         /\ CallsCover(calls, b) = 1 + MergeCover(Cur.merge_operations, b)
    /\ \A i \in 1..Len(calls) :
         calls[i].call \notin {"add_label", "finalize"} =>
           (calls[i].dst >= 0 /\ calls[i].dst + calls[i].count <= NewBlocks(manifest, Cur))

\* A well-formed two-block partition, written by a DISCARD and a COPY
\* operation and carrying a MergeOperation, has been finalized.
C5_Witness ==
  /\ JustFinalized
  /\ WellFormed(Cur, manifest.block_size)
  /\ NewBlocks(manifest, Cur) = 2
  /\ Len(Cur.operations) = 2
  /\ \E i \in 1..2 : Cur.operations[i].type = "DISCARD"
  /\ \E i \in 1..2 : Cur.operations[i].type = "COPY"
  /\ Cur.merge_operations # <<>>
  /\ \E b \in 0..1 : CallsCover(calls, b) = 2

\* The traces of a partition: with the label, and without it when there
\* are no MergeOperations.
ExpectedInstall(op) == IF op.type = "COPY" THEN AlignedRuns(op) ELSE PerExtent(op)

ExpectedTraces(partition) ==
  LET install == FlatMap(ExpectedInstall, partition.operations)
      merge == MergeCopies(partition.merge_operations)
  IN {install \o <<LabelCall>> \o merge \o <<FinalizeCall>>}
     \cup (IF partition.merge_operations = <<>>
             THEN {install \o <<FinalizeCall>>} ELSE {})

-----------------------------------------------------------------------------
(* C6 as stated: the finalized trace is one call for each destination       *)
(* extent of the InstallOperations in manifest order, then exactly one      *)
(* add_label, then one COPY for each MergeOperation in manifest order, then *)
(* finalize.                                                                *)
C6_TraceShape ==
  JustFinalized =>
    NoSrc(calls) = NoSrc(FlatMap(PerExtent, Cur.operations) \o <<LabelCall>>
                         \o MergeCopies(Cur.merge_operations) \o <<FinalizeCall>>)

(* C6 amended: the trace is, for each InstallOperation in manifest order,   *)
(* one call for each destination extent in extent order for ZERO, DISCARD   *)
(* and REPLACE operations and one add_copy for each aligned run of source   *)
(* and destination extents for COPY operations (a destination extent is     *)
(* split where a source extent ends); then add_label, exactly once when the *)
(* partition has MergeOperations and at most once when it has none; then    *)
(* one COPY for each MergeOperation in manifest order; then finalize.  At   *)
(* every moment the calls made so far are a prefix of such a trace, so      *)
(* nothing is coalesced or reordered, only the label is not derived from a  *)
(* manifest operation and no install-pass call follows the label.           *)
C6_TraceShapeAligned ==
  /\ (pc \in {"pp_dry_run", "pp_install", "pp_merge", "pp_finalize"} \/ JustFinalized) =>
       \E t \in ExpectedTraces(Cur) : IsPrefix(calls, t)
  /\ JustFinalized => calls \in ExpectedTraces(Cur)

\* A COPY whose single destination extent of two blocks is fed by two source
\* extents, finalized after a label and a merge COPY.
C6_Witness ==
  /\ JustFinalized
  /\ \E i \in 1..Len(Cur.operations) :
       /\ Cur.operations[i].type = "COPY"
       /\ Len(Cur.operations[i].dst_extents) = 1
       /\ Len(Cur.operations[i].src_extents) = 2
  /\ Len(Cur.operations) = 2
  /\ Cur.merge_operations # <<>>
  /\ Len(calls) = 6

====
